---- MODULE Spec2Model ----
(***************************************************************************)
(* Model of Cp_d1_ql1b (src/src/cp_pfdr_d1_ql1b.cpp): cut-pursuit for a    *)
(* quadratic + d1 (graph total variation) + l1 + box functional.           *)
(*                                                                         *)
(* Reals are modelled by integers; the results of a division are kept as   *)
(* fractions <<numerator, denominator>> and compared by cross              *)
(* multiplication.  Arrays are sequences indexed from 1 (the code indexes  *)
(* from 0); a null pointer is the empty sequence.                          *)
(***************************************************************************)
EXTENDS Integers, Sequences, FiniteSets, TLC

(***************************************************************************)
(* Bounds of the model.                                                    *)
(***************************************************************************)
\* scalar inputs are drawn from -MaxVal..MaxVal (or 0..MaxVal)
MaxVal == 1
\* number of split() calls in one behaviour
MaxSplits == 2

(***************************************************************************)
(* Constants of the program.                                               *)
(***************************************************************************)
\* +infinity of real_t; every finite quantity of the model is far below it
INF_REAL == 1000
\* shape tags carried by N (left-premultiplied operator A^t A)
FULL_ATA == 0
DIAG_ATA == 1
IS_ATA(n) == n = FULL_ATA \/ n = DIAG_ATA
\* the numerical floor eps of the base class, as the fraction 1/EpsDen
EpsDen == 1000
\* iteration count before the first solve (pfdr_it = pfdr_it_max = 1e4)
PfdrItInit == 10000

NULL == << >>
IsNull(p) == p = << >>

(***************************************************************************)
(* The graph handed to the constructor, in compressed adjacency form:      *)
(* edges 1 -> 2, 1 -> 3, 2 -> 3.                                           *)
(***************************************************************************)
first_edge == <<1, 3, 4, 4>>
adj_vertices == <<2, 3, 3>>
V == Len(first_edge) - 1
E == Len(adj_vertices)
Vertices == 1..V
Edges == 1..E
\* edges e with first_edge[u] <= e < first_edge[u + 1]
EdgesOf(u) == {e \in Edges : first_edge[u] <= e /\ e < first_edge[u + 1]}
\* the source vertex of edge e
SrcOf(e) == CHOOSE u \in Vertices : e \in EdgesOf(u)
\* d1 weights: a homogeneous weight (edge_weights is null)
homo_edge_weight == 1
EDGE_WEIGHTS_(e) == homo_edge_weight

(***************************************************************************)
(* Generic helpers.                                                        *)
(***************************************************************************)
RECURSIVE SumSeq(_)
SumSeq(s) == IF s = << >> THEN 0 ELSE Head(s) + SumSeq(Tail(s))
RECURSIVE SumSet(_, _)
\* sum of f[x] over the finite set S
SumSet(f, S) ==
    IF S = {} THEN 0
    ELSE LET x == CHOOSE y \in S : TRUE IN f[x] + SumSet(f, S \ {x})
Abs(x) == IF x < 0 THEN -x ELSE x
Max(S) == CHOOSE x \in S : \A y \in S : y <= x
Min(S) == CHOOSE x \in S : \A y \in S : x <= y
ConstArr(c) == [v \in Vertices |-> c]

VARIABLES
    \* ---- configuration (set_quadratic, set_l1, set_bounds, set_pfdr_param)
    Y, N, A, a, R,
    l1_weights, homo_l1_weight, Yl1,
    low_bnd, homo_low_bnd, upp_bnd, homo_upp_bnd,
    pfdr_it, pfdr_it_max,
    \* ---- process state
    halted,        \* exit(EXIT_FAILURE) was called
    call,          \* the operation last invoked, with its arguments
    \* ---- partition and reduced solution (owned by the base class Cp)
    rV, comp_assign, comp_list, first_vertex,
    saturated,     \* saturation flag of each component
    edge_active,   \* active flag of each edge
    rX,            \* reduced solution, one value per component
    last_rX, tmp_comp_assign,   \* previous round: values and assignment
    \* ---- outputs
    uX,            \* value written by solve_univertex_problem (a fraction)
    pfdr,          \* what solve_reduced_problem handed to the delegate
    evo,           \* return value and saturation count of compute_evolution
    obj,           \* value returned by compute_objective (a fraction)
    \* ---- split()
    sp,            \* "idle", "running" or "returned"
    pc,            \* position of the task of each component
    grad, term_cap, edge_cap, is_sink,
    rv_activation, \* per task
    activation,    \* reduction variable; the value returned
    nflow,         \* maxflow queries issued per component in this call
    nsplit,        \* number of split() calls so far
    \* ---- history: state on entry of the last operation
    sat0, act0, sink1

cfgVars == <<Y, N, A, a, R, l1_weights, homo_l1_weight, Yl1,
             low_bnd, homo_low_bnd, upp_bnd, homo_upp_bnd,
             pfdr_it, pfdr_it_max>>
quadVars == <<Y, N, A, a, R>>
l1Vars == <<l1_weights, homo_l1_weight, Yl1>>
bndVars == <<low_bnd, homo_low_bnd, upp_bnd, homo_upp_bnd>>
pfdrVars == <<pfdr_it, pfdr_it_max>>
partVars == <<rV, comp_assign, comp_list, first_vertex, saturated,
              edge_active, rX, last_rX, tmp_comp_assign>>
outVars == <<uX, pfdr, evo, obj>>
splitVars == <<sp, pc, grad, term_cap, edge_cap, is_sink, rv_activation,
               activation, nflow, nsplit>>
histVars == <<sat0, act0, sink1>>
vars == <<cfgVars, halted, call, partVars, outVars, splitVars, histVars>>

(***************************************************************************)
(* Constructor.                                                            *)
(***************************************************************************)
CtorCfg ==
    /\ Y = NULL /\ Yl1 = NULL /\ A = NULL /\ R = NULL
    /\ N = DIAG_ATA
    /\ a = 1
    /\ l1_weights = NULL /\ homo_l1_weight = 0
    /\ low_bnd = NULL /\ homo_low_bnd = -INF_REAL
    /\ upp_bnd = NULL /\ homo_upp_bnd = INF_REAL
    /\ pfdr_it = PfdrItInit /\ pfdr_it_max = PfdrItInit

(***************************************************************************)
(* Partitions of the graph into components.  A partition is given by       *)
(* comp_assign; comp_list lists the vertices component by component and    *)
(* first_vertex[rv] .. first_vertex[rv + 1] - 1 are the positions of rv.   *)
(* Components are the connected pieces induced by the inactive edges, so   *)
(* an edge between two components is active.                               *)
(***************************************************************************)
Assignments == {<<1, 1, 1>>, <<1, 1, 2>>, <<1, 2, 2>>, <<1, 2, 1>>, <<1, 2, 3>>}
NumComp(ca) == Max({ca[v] : v \in Vertices})
RECURSIVE SortedSeq(_)
\* the elements of a set of integers in increasing order
SortedSeq(S) == IF S = {} THEN << >>
                ELSE <<Min(S)>> \o SortedSeq(S \ {Min(S)})
RECURSIVE CompListOf(_, _)
CompListOf(ca, rv) ==
    IF rv > NumComp(ca) THEN << >>
    ELSE SortedSeq({v \in Vertices : ca[v] = rv}) \o CompListOf(ca, rv + 1)
FirstVertexOf(ca) ==
    [rv \in 1..(NumComp(ca) + 1) |->
        1 + Cardinality({v \in Vertices : ca[v] < rv})]
Comps == 1..rV
\* positions first_vertex[rv] <= i < first_vertex[rv + 1]
PosOf(rv) == first_vertex[rv]..(first_vertex[rv + 1] - 1)
CompVerts(rv) == {comp_list[i] : i \in PosOf(rv)}
CompSize(rv) == first_vertex[rv + 1] - first_vertex[rv]
is_saturated(rv) == saturated[rv]
is_active(e) == edge_active[e]

\* a freshly computed partition: edges inside a component are inactive
FreshPartition(ca) ==
    /\ comp_assign = ca
    /\ rV = NumComp(ca)
    /\ comp_list = CompListOf(ca, 1)
    /\ first_vertex = FirstVertexOf(ca)
    /\ edge_active = [e \in Edges |-> ca[SrcOf(e)] # ca[adj_vertices[e]]]

\* values of the variables a specification does not use
NoOutputs ==
    /\ uX = <<0, 1>> /\ pfdr = [op |-> "none"] /\ evo = [op |-> "none"]
    /\ obj = [op |-> "none"]
NoSplit ==
    /\ sp = "idle"
    /\ pc = [rv \in Comps |-> "done"]
    /\ grad = ConstArr(0) /\ term_cap = ConstArr(0)
    /\ edge_cap = [e \in Edges |-> 0]
    /\ is_sink = [v \in Vertices |-> FALSE]
    /\ rv_activation = [rv \in Comps |-> 0]
    /\ activation = 0
    /\ nflow = [rv \in Comps |-> 0]
    /\ nsplit = 0
NoHistory ==
    /\ sat0 = saturated /\ act0 = edge_active
    /\ sink1 = [v \in Vertices |-> FALSE]
\* the single component of the whole graph, before any solve
OnePartition ==
    /\ FreshPartition(<<1, 1, 1>>)
    /\ saturated = [rv \in 1..1 |-> FALSE]
    /\ rX = [rv \in 1..1 |-> 0]
    /\ last_rX = [rv \in 1..1 |-> 0]
    /\ tmp_comp_assign = <<1, 1, 1>>

(***************************************************************************)
(* set_l1                                                                  *)
(***************************************************************************)
\* the test of line 64 with the comparison turned round
set_l1_fatal_flipped(w, h) == IsNull(w) /\ h > 0
set_l1_fatal(w, h) == IsNull(w) /\ h < 0

set_l1(w, h, yl1) ==
    /\ ~halted
    /\ call' = [op |-> "set_l1", l1_weights |-> w, homo_l1_weight |-> h,
                Yl1 |-> yl1]
    /\ IF set_l1_fatal(w, h)
       THEN /\ halted' = TRUE
            /\ UNCHANGED l1Vars
       ELSE /\ l1_weights' = w /\ homo_l1_weight' = h /\ Yl1' = yl1
            /\ UNCHANGED halted
    /\ UNCHANGED <<quadVars, bndVars, pfdrVars>>
    /\ UNCHANGED <<partVars, outVars, splitVars, histVars>>

(***************************************************************************)
(* set_bounds                                                              *)
(***************************************************************************)
\* the test of line 78 with the comparison turned round
set_bounds_fatal_flipped(low, hlow, upp, hupp) ==
    IsNull(low) /\ IsNull(upp) /\ hlow < hupp
set_bounds_fatal(low, hlow, upp, hupp) ==
    IsNull(low) /\ IsNull(upp) /\ hlow > hupp

set_bounds(low, hlow, upp, hupp) ==
    /\ ~halted
    /\ call' = [op |-> "set_bounds", low_bnd |-> low, homo_low_bnd |-> hlow,
                upp_bnd |-> upp, homo_upp_bnd |-> hupp]
    /\ IF set_bounds_fatal(low, hlow, upp, hupp)
       THEN /\ halted' = TRUE
            /\ UNCHANGED bndVars
       ELSE /\ low_bnd' = low /\ homo_low_bnd' = hlow
            /\ upp_bnd' = upp /\ homo_upp_bnd' = hupp
            /\ UNCHANGED halted
    /\ UNCHANGED <<quadVars, l1Vars, pfdrVars>>
    /\ UNCHANGED <<partVars, outVars, splitVars, histVars>>

(***************************************************************************)
(* set_quadratic: the residual buffer is reallocated (its content is not   *)
(* initialised) whenever the operator is set.                              *)
(***************************************************************************)
Garbage == {0, 1}

set_quadratic(Yarg, Narg, Aarg, aarg) ==
    /\ ~halted
    /\ call' = [op |-> "set_quadratic", Y |-> Yarg, N |-> Narg, A |-> Aarg,
                a |-> aarg]
    /\ LET Neff == IF IsNull(Aarg) /\ aarg = 0 THEN DIAG_ATA ELSE Narg
       IN /\ N' = Neff
          /\ IF IS_ATA(Neff) THEN R' = NULL
             ELSE \E g \in Garbage : R' = [n \in 1..Neff |-> <<g, 1>>]
    /\ Y' = Yarg /\ A' = Aarg /\ a' = aarg
    /\ UNCHANGED <<l1Vars, bndVars, pfdrVars, halted>>
    /\ UNCHANGED <<partVars, outVars, splitVars, histVars>>

(***************************************************************************)
(* set_pfdr_param (only the iteration cap is modelled; the relaxation and  *)
(* conditioning parameters are passed through to the delegate).            *)
(***************************************************************************)
set_pfdr_param(it_max) ==
    /\ ~halted
    /\ call' = [op |-> "set_pfdr_param", it_max |-> it_max]
    /\ pfdr_it_max' = it_max
    /\ UNCHANGED <<quadVars, l1Vars, bndVars, pfdr_it, halted>>
    /\ UNCHANGED <<partVars, outVars, splitVars, histVars>>

(***************************************************************************)
(* Input families.                                                         *)
(***************************************************************************)
Vals == 0..MaxVal
\* per-vertex arrays: constant ones, and one that singles out vertex 1
ArrFam == {ConstArr(c) : c \in Vals}
          \cup {[v \in Vertices |-> IF v = 1 THEN 0 ELSE MaxVal]}
OptArr == {NULL} \cup ArrFam
LowScalars == {-INF_REAL} \cup Vals
UppScalars == Vals \cup {INF_REAL}
\* operator shapes: none, identity, diagonal, full A^t A, direct 2 x V
\* (column-major, as the code indexes it)
DirectA == <<1, 0, 0, 1, 1, 1>>
FullA == <<1, 0, 1, 0, 1, 1, 1, 1, 2>>
DiagA == <<1, 2, 1>>
Shapes ==
    {[N |-> DIAG_ATA, A |-> NULL, a |-> c] : c \in 0..(MaxVal + 1)}
    \cup {[N |-> DIAG_ATA, A |-> DiagA, a |-> 1],
          [N |-> FULL_ATA, A |-> FullA, a |-> 1],
          [N |-> 2, A |-> DirectA, a |-> 1]}
\* length of the observation vector of a shape
YLen(sh) == IF IS_ATA(sh.N) THEN V ELSE sh.N

(***************************************************************************)
(* Configuration calls, from the constructed object.                       *)
(***************************************************************************)
InitCfg ==
    /\ CtorCfg
    /\ halted = FALSE
    /\ call = [op |-> "ctor"]
    /\ OnePartition /\ NoOutputs /\ NoSplit /\ NoHistory

\* arguments of the configuration calls
CfgArrs == {NULL, ConstArr(MaxVal), [v \in Vertices |-> IF v = 1 THEN 0 ELSE MaxVal]}
CfgShapes == {sh \in Shapes : (IsNull(sh.A) /\ sh.a = 1) \/ ~IS_ATA(sh.N)}

NextCfg ==
    \/ \E w \in {NULL, ConstArr(MaxVal)}, h \in (-1)..MaxVal,
          yl1 \in {NULL, ConstArr(0)} : set_l1(w, h, yl1)
    \/ \E low \in CfgArrs, hlow \in LowScalars,
          upp \in CfgArrs, hupp \in UppScalars :
            set_bounds(low, hlow, upp, hupp)
    \/ \E sh \in CfgShapes : set_quadratic(NULL, sh.N, sh.A, sh.a)
    \/ \E it \in {2} : set_pfdr_param(it)

SpecCfg == InitCfg /\ [][NextCfg]_vars

\* effective bounds of vertex v
LowOf(v) == IF IsNull(low_bnd) THEN homo_low_bnd ELSE low_bnd[v]
UppOf(v) == IF IsNull(upp_bnd) THEN homo_upp_bnd ELSE upp_bnd[v]

(***************************************************************************)
(* compute_evolution(compute_dif, saturation).  The loop over the          *)
(* components is a parallel reduction over disjoint flags; its result does *)
(* not depend on the order of the iterations.  The value returned is kept  *)
(* as its square, the fraction ret2.                                       *)
(***************************************************************************)
\* dif_tol of the base class, as the fraction DifTolNum/DifTolDen
DifTolNum == 1
DifTolDen == 2
\* last_rX[get_tmp_comp_assign(v)]
LastValue(v) == last_rX[tmp_comp_assign[v]]
\* rv_dif taken on the last vertex of the component
RvDif_last(rv) ==
    Abs(rX[rv] - LastValue(comp_list[first_vertex[rv + 1] - 1]))
\* rv_dif = abs(rXv - lrXv), on the first vertex of the component
RvDif(rv) == Abs(rX[rv] - LastValue(comp_list[first_vertex[rv]]))
\* the test of line 680 with >= for >
ExceedsTol_geq(rv) == RvDif(rv) * DifTolDen >= Abs(rX[rv]) * DifTolNum
\* rv_dif > abs(rX[rv])*dif_tol
ExceedsTol(rv) == RvDif(rv) * DifTolDen > Abs(rX[rv]) * DifTolNum
EvoDif2(rv) ==
    IF is_saturated(rv) THEN RvDif(rv) * RvDif(rv) * CompSize(rv)
    ELSE SumSet([v \in Vertices |-> (rX[rv] - LastValue(v)) * (rX[rv] - LastValue(v))],
                CompVerts(rv))
EvoAmp2(rv) == rX[rv] * rX[rv] * CompSize(rv)

compute_evolution(compute_dif) ==
    /\ ~halted /\ sp # "running"
    /\ LET dif2 == SumSet([rv \in Comps |-> EvoDif2(rv)], Comps)
           amp2 == SumSet([rv \in Comps |-> EvoAmp2(rv)], Comps)
           kept == {rv \in Comps : is_saturated(rv) /\ ~ExceedsTol(rv)}
       IN /\ saturated' = [rv \in Comps |-> rv \in kept]
          /\ evo' = [op |-> "compute_evolution",
                     compute_dif |-> compute_dif,
                     ret2 |-> IF ~compute_dif THEN <<0, 1>>
                              ELSE IF amp2 * EpsDen * EpsDen > 1
                                   THEN <<dif2, amp2>>
                                   ELSE <<dif2 * EpsDen * EpsDen, 1>>,
                     saturation |-> Cardinality(kept)]
    /\ sat0' = saturated
    /\ call' = [op |-> "compute_evolution", compute_dif |-> compute_dif]
    /\ UNCHANGED <<cfgVars, halted, rV, comp_assign, comp_list, first_vertex,
                   edge_active, rX, last_rX, tmp_comp_assign, uX, pfdr,
                   obj, splitVars, act0, sink1>>

InitEvo ==
    /\ CtorCfg /\ halted = FALSE /\ call = [op |-> "ctor"]
    /\ \E ca \in Assignments : FreshPartition(ca)
    /\ saturated \in [Comps -> BOOLEAN]
    /\ rX \in [Comps -> (-1)..MaxVal]
    /\ tmp_comp_assign \in Assignments
    /\ last_rX \in [1..NumComp(tmp_comp_assign) -> 0..MaxVal]
    /\ NoOutputs /\ NoSplit /\ NoHistory

NextEvo == \E b \in BOOLEAN : compute_evolution(b)

SpecEvo == InitEvo /\ [][NextEvo]_vars

(***************************************************************************)
(* Claims on compute_evolution (checked under SpecEvo).                    *)
(***************************************************************************)
\* every vertex has the value it had in the previous round
SameAsLastRound == \A v \in Vertices : rX[comp_assign[v]] = LastValue(v)
EvolutionReturned == evo.op = "compute_evolution" /\ evo.compute_dif

\* C3 (as stated): if rX gives every vertex its previous value, then
\* compute_evolution(true, .) returns 0, every saturation flag is true and
\* the saturation count is rV, whatever the flags were on entry.
C3_IdenticalAllSaturated ==
    (EvolutionReturned /\ SameAsLastRound) =>
        /\ evo.ret2[1] = 0
        /\ \A rv \in Comps : is_saturated(rv)
        /\ evo.saturation = rV

\* C3 (amended): if rX gives every vertex its previous value, then
\* compute_evolution(true, .) returns 0 and leaves every saturation flag as
\* it was on entry; the saturation count is the number of components that
\* were saturated on entry (the call never sets a flag).
C3_IdenticalKeepsFlags ==
    (EvolutionReturned /\ SameAsLastRound) =>
        /\ evo.ret2[1] = 0
        /\ saturated = sat0
        /\ evo.saturation = Cardinality({rv \in Comps : sat0[rv]})

\* C3 witness: identical values, a call that returned, with one component
\* saturated on entry and another not, and a nonzero value.
C3_Witness ==
    /\ EvolutionReturned /\ SameAsLastRound
    /\ \E r1, r2 \in Comps : sat0[r1] /\ ~sat0[r2] /\ rX[r1] # 0
    /\ evo.saturation >= 1

(***************************************************************************)
(* Fractions <<numerator, denominator>> with a positive denominator.       *)
(***************************************************************************)
FInt(i) == <<i, 1>>
FEq(x, y) == x[1] * y[2] = y[1] * x[2]
FLt(x, y) == x[1] * y[2] < y[1] * x[2]
FLeq(x, y) == x[1] * y[2] <= y[1] * x[2]
\* n/d in IEEE arithmetic, for d >= 0 and (n, d) # (0, 0)
Div(n, d) == IF d > 0 THEN <<n, d>>
             ELSE IF n > 0 THEN <<INF_REAL, 1>> ELSE <<-INF_REAL, 1>>

(***************************************************************************)
(* Accessors of the optional arrays (the macros of lines 14-17).           *)
(***************************************************************************)
L1_WEIGHTS_(v) == IF IsNull(l1_weights) THEN homo_l1_weight ELSE l1_weights[v]
Y_(n) == IF IsNull(Y) THEN 0 ELSE Y[n]
Yl1_(v) == IF IsNull(Yl1) THEN 0 ELSE Yl1[v]
\* A[n + N*v] of the direct N x V matrix (column major), n in 1..N
ADirect(n, v) == A[n + N * (v - 1)]
\* A[V*u + v] of the full V x V matrix
AFull(u, v) == A[V * (u - 1) + v]

(***************************************************************************)
(* Selection utilities of wth_element.hpp.  Both return the selected value *)
(* and reorder the index list they are given.                              *)
(***************************************************************************)
\* weighted median: the first value, in increasing order, at which the
\* cumulated weight exceeds wth = half the total weight
WthElement(S, val, w) ==
    LET tot == SumSet(w, S)
        cum(x) == SumSet(w, {v \in S : val[v] <= x})
        cands == {val[v] : v \in {u \in S : 2 * cum(val[u]) > tot}}
    IN IF cands = {} THEN Max({val[v] : v \in S}) ELSE Min(cands)
\* the value of rank n (counted from 0) in increasing order
NthElementIdx(S, val, n) ==
    CHOOSE x \in {val[v] : v \in S} :
        /\ Cardinality({v \in S : val[v] < x}) <= n
        /\ n < Cardinality({v \in S : val[v] <= x})
RECURSIVE SortByValue(_, _)
\* the vertices of S by increasing value (then by index)
SortByValue(S, val) ==
    IF S = {} THEN << >>
    ELSE LET m == Min({val[v] : v \in S})
             f == Min({v \in S : val[v] = m})
         IN <<f>> \o SortByValue(S \ {f}, val)

(***************************************************************************)
(* solve_univertex_problem(uX, rv): called with component 0 (here 1)       *)
(* holding the whole graph.                                                *)
(***************************************************************************)
\* rA[n]: sum of the columns of A
UniRA(n) == SumSet([v \in Vertices |-> ADirect(n, v)], Vertices)
\* y = <A1|Y>
UniY ==
    IF ~IS_ATA(N)
    THEN SumSet([n \in 1..N |-> UniRA(n) * Y_(n)], 1..N)
    ELSE IF (~IsNull(A) \/ a # 0) /\ ~IsNull(Y)
         THEN SumSet(Y, Vertices) ELSE 0
\* aa = ||A1||^2
UniAA ==
    IF ~IS_ATA(N)
    THEN SumSet([n \in 1..N |-> UniRA(n) * UniRA(n)], 1..N)
    ELSE IF ~(~IsNull(A) \/ a # 0) THEN 0
    ELSE IF N = FULL_ATA
         THEN SumSet([u \in Vertices |->
                        SumSet([v \in Vertices |-> AFull(u, v)], Vertices)],
                     Vertices)
    ELSE IF ~IsNull(A) THEN SumSet(A, Vertices)
    ELSE V
\* aggregated l1 weight
UniWl1 ==
    IF ~IsNull(l1_weights) THEN SumSet(l1_weights, Vertices)
    ELSE IF homo_l1_weight # 0 THEN V * homo_l1_weight
    ELSE 0
\* (weighted) median of the targets
UniYl1 ==
    IF ~IsNull(l1_weights) /\ ~IsNull(Yl1)
    THEN WthElement(Vertices, Yl1, l1_weights)
    ELSE IF IsNull(l1_weights) /\ homo_l1_weight # 0 /\ ~IsNull(Yl1)
    THEN NthElementIdx(Vertices, Yl1, V \div 2)
    ELSE 0
\* the solution of line 170 dividing y - wl1 in both branches
UniSolution_sign(y, aa, wl1, yl1) ==
    IF y - wl1 > aa * yl1 THEN Div(y - wl1, aa)
    ELSE IF y + wl1 < aa * yl1 THEN Div(y - wl1, aa)
    ELSE FInt(yl1)
\* solution of least-square + l1 (lines 169-171)
UniSolution(y, aa, wl1, yl1) ==
    IF y - wl1 > aa * yl1 THEN Div(y - wl1, aa)
    ELSE IF y + wl1 < aa * yl1 THEN Div(y + wl1, aa)
    ELSE FInt(yl1)
UniUnconstrained == UniSolution(UniY, UniAA, UniWl1, UniYl1)
\* aggregated lower bound
UniLow ==
    IF ~IsNull(low_bnd) THEN Max({-INF_REAL} \cup {low_bnd[v] : v \in Vertices})
    ELSE homo_low_bnd
\* the aggregation of lines 187-196 keeping the largest upper bound
UniUpp_max ==
    IF ~IsNull(upp_bnd) THEN Max({upp_bnd[v] : v \in Vertices})
    ELSE homo_upp_bnd
\* aggregated upper bound
UniUpp ==
    IF ~IsNull(upp_bnd) THEN Min({INF_REAL} \cup {upp_bnd[v] : v \in Vertices})
    ELSE homo_upp_bnd
\* the two projections of lines 184 and 197, in this order
UniClamp(x) ==
    LET x1 == IF FLt(x, FInt(UniLow)) THEN FInt(UniLow) ELSE x
    IN IF FLt(FInt(UniUpp), x1) THEN FInt(UniUpp) ELSE x1

solve_univertex_problem ==
    /\ ~halted /\ sp # "running" /\ rV = 1
    /\ LET x == UniClamp(UniUnconstrained)
       IN /\ uX' = x
          /\ IF ~IS_ATA(N)
             THEN R' = [n \in 1..N |->
                          <<Y_(n) * x[2] - UniRA(n) * x[1], x[2]>>]
             ELSE UNCHANGED R
    /\ IF ~IsNull(l1_weights) /\ ~IsNull(Yl1)
       THEN /\ comp_list' = SortByValue(Vertices, Yl1)
            /\ saturated' = [saturated EXCEPT ![1] = FALSE]
       ELSE IF IsNull(l1_weights) /\ homo_l1_weight # 0 /\ ~IsNull(Yl1)
       THEN /\ comp_list' = SortByValue(Vertices, Yl1)
            /\ UNCHANGED saturated
       ELSE UNCHANGED <<comp_list, saturated>>
    /\ call' = [op |-> "solve_univertex_problem"]
    /\ UNCHANGED <<Y, N, A, a, l1Vars, bndVars, pfdrVars, halted,
                   rV, comp_assign, first_vertex, edge_active, rX, last_rX,
                   tmp_comp_assign, pfdr, evo, obj, splitVars, histVars>>

\* observation vectors offered to a shape
YFam(len) ==
    {NULL} \cup {[n \in 1..len |-> c] : c \in (-MaxVal)..(MaxVal + 1)}
    \cup {[n \in 1..len |-> IF n = 1 THEN MaxVal + 1 ELSE 0]}
MixedArr == [v \in Vertices |-> IF v = 1 THEN 0 ELSE MaxVal]
\* l1 configurations set_l1 accepts
L1Cfgs ==
    {c \in [w : {NULL, ConstArr(1), MixedArr}, h : {-1, 0, MaxVal},
            yl1 : {NULL, ConstArr(0), ConstArr(MaxVal), MixedArr}] :
        IF IsNull(c.w) THEN c.h >= 0 ELSE c.h <= 0}
\* bound configurations set_bounds accepts
BndCfgs ==
    {c \in [low : {NULL, MixedArr}, hlow : {-INF_REAL, 0},
            upp : {NULL, MixedArr}, hupp : {MaxVal, INF_REAL}] : TRUE}
    \cup {[low |-> [v \in Vertices |-> IF v = 1 THEN MaxVal ELSE 0],
           hlow |-> 0, upp |-> NULL, hupp |-> 0]}

\* a configuration the set_* calls can produce
Configured(sh, y, l1, b) ==
    /\ N = sh.N /\ A = sh.A /\ a = sh.a /\ Y = y
    /\ l1_weights = l1.w /\ homo_l1_weight = l1.h /\ Yl1 = l1.yl1
    /\ low_bnd = b.low /\ homo_low_bnd = b.hlow
    /\ upp_bnd = b.upp /\ homo_upp_bnd = b.hupp
    /\ pfdr_it = PfdrItInit /\ pfdr_it_max = PfdrItInit

InitUni ==
    /\ \E sh \in Shapes, l1 \in L1Cfgs, b \in BndCfgs :
         \E y \in YFam(YLen(sh)) :
            /\ Configured(sh, y, l1, b)
            /\ IF IS_ATA(sh.N) THEN R = NULL
               ELSE R = [n \in 1..sh.N |-> <<0, 1>>]
    /\ halted = FALSE /\ call = [op |-> "configured"]
    /\ OnePartition /\ NoOutputs /\ NoSplit /\ NoHistory

NextUni == solve_univertex_problem

SpecUni == InitUni /\ [][NextUni]_vars

(***************************************************************************)
(* compute_objective.                                                      *)
(***************************************************************************)
FAdd(x, y) == IF x[2] = y[2] THEN <<x[1] + y[1], x[2]>>
              ELSE <<x[1] * y[2] + y[1] * x[2], x[2] * y[2]>>
FSub(x, y) == FAdd(x, <<-y[1], y[2]>>)
FMul(x, y) == <<x[1] * y[1], x[2] * y[2]>>
FAbs(x) == <<Abs(x[1]), x[2]>>
\* HALF*x
FHalf(x) == <<x[1], 2 * x[2]>>
RECURSIVE FSumSet(_, _)
\* sum of the fractions f[i] over the finite set S
FSumSet(f, S) ==
    IF S = {} THEN <<0, 1>>
    ELSE LET i == CHOOSE j \in S : TRUE IN FAdd(f[i], FSumSet(f, S \ {i}))

\* rX[rv] as a real.  solve_univertex_problem writes its answer through the
\* pointer uX, which its caller sets to rX: right after it, the single
\* component holds uX.
RXVal(rv) ==
    IF call.op = "solve_univertex_problem" THEN uX ELSE FInt(rX[rv])

\* rAAuv of lines 725-735
ObjRAA(ru, rv) ==
    SumSet([u \in Vertices |->
              SumSet([v \in Vertices |-> AFull(u, v)], CompVerts(rv))],
           CompVerts(ru))
\* rAYu of lines 739-744 and 753-759
ObjRAY(rv) == SumSet([v \in Vertices |-> Y_(v)], CompVerts(rv))
\* quadratic term with the factor HALF of line 760 on the first operand
ObjQuad_halfAll ==
    IF ~IS_ATA(N)
    THEN FHalf(FSumSet([n \in 1..N |-> FMul(R[n], R[n])], 1..N))
    ELSE FHalf(FSumSet([rv \in Comps |->
                 FMul(RXVal(rv),
                      FSub(FMul(FInt(IF IsNull(A) THEN CompSize(rv)
                                     ELSE SumSet(A, CompVerts(rv))),
                                RXVal(rv)),
                           FInt(ObjRAY(rv))))], Comps))
\* quadratic term (lines 710-762)
ObjQuad ==
    IF ~IS_ATA(N)
    THEN FHalf(FSumSet([n \in 1..N |-> FMul(R[n], R[n])], 1..N))
    ELSE IF N = FULL_ATA
    THEN FSumSet([ru \in Comps |->
            FMul(RXVal(ru),
                 FSub(FSumSet([rv \in 1..ru |->
                         IF rv < ru
                         THEN FMul(FInt(ObjRAA(ru, rv)), RXVal(rv))
                         ELSE FHalf(FMul(FInt(ObjRAA(ru, rv)), RXVal(ru)))],
                         1..ru),
                      FInt(ObjRAY(ru))))], Comps)
    ELSE IF ~IsNull(A) \/ a # 0
    THEN FSumSet([rv \in Comps |->
            FMul(RXVal(rv),
                 FSub(FHalf(FMul(FInt(IF IsNull(A) THEN CompSize(rv)
                                      ELSE SumSet(A, CompVerts(rv))),
                                 RXVal(rv))),
                      FInt(ObjRAY(rv))))], Comps)
    ELSE <<0, 1>>
\* compute_graph_d1 of the base class: the weighted differences along the
\* edges between two components
ObjD1 ==
    FSumSet([e \in Edges |->
               FMul(FInt(EDGE_WEIGHTS_(e)),
                    FAbs(FSub(RXVal(comp_assign[SrcOf(e)]),
                              RXVal(comp_assign[adj_vertices[e]]))))],
            {e \in Edges : comp_assign[SrcOf(e)] # comp_assign[adj_vertices[e]]})
\* l1 term (lines 766-784)
ObjL1 ==
    IF ~IsNull(l1_weights)
    THEN FSumSet([v \in Vertices |->
                    FMul(FInt(l1_weights[v]),
                         FAbs(FSub(RXVal(comp_assign[v]), FInt(Yl1_(v)))))],
                 Vertices)
    ELSE IF homo_l1_weight # 0
    THEN FMul(FInt(homo_l1_weight),
              FSumSet([v \in Vertices |->
                         FAbs(FSub(RXVal(comp_assign[v]), FInt(Yl1_(v))))],
                      Vertices))
    ELSE <<0, 1>>

compute_objective ==
    /\ ~halted /\ sp # "running"
    /\ obj' = [op |-> "compute_objective", after |-> call.op,
               ret |-> FAdd(FAdd(ObjQuad, ObjD1), ObjL1)]
    /\ UNCHANGED <<cfgVars, halted, call, partVars, uX, pfdr, evo, splitVars,
                   histVars>>

\* the univariate solve on the single component, then the objective
NextObj == solve_univertex_problem \/ compute_objective

SpecObj == InitUni /\ [][NextObj]_vars

(***************************************************************************)
(* solve_reduced_problem.                                                  *)
(***************************************************************************)
\* (2*N*pfdr_it)/(N + pfdr_it), in unsigned integer arithmetic
RedThreshold == (2 * N * pfdr_it) \div (N + pfdr_it)
\* line 224: rN is read in its own initialiser, before it has a value;
\* garbageIsAta is what IS_ATA makes of the uninitialised rN
RedShape(garbageIsAta) ==
    IF ~garbageIsAta /\ rV < RedThreshold THEN FULL_ATA ELSE N
\* rN after lines 226-236
RedRN(garbageIsAta) ==
    LET rN0 == RedShape(garbageIsAta)
    IN IF IS_ATA(rN0) /\ (~IsNull(A) \/ a # 0) /\ N # DIAG_ATA
       THEN FULL_ATA ELSE rN0
\* rA with the first vertex of the component only
RedRA_first(n, rv) == ADirect(n, comp_list[first_vertex[rv]])
\* rA: the columns of A summed along each component (lines 237-248)
RedRA(n, rv) == SumSet([v \in Vertices |-> ADirect(n, v)], CompVerts(rv))
\* entry (ru, rv) of the reduced rA^t rA (lines 249-261, 284-302, 320-330)
RedRAAFull(ru, rv) ==
    IF ~IS_ATA(N)
    THEN SumSet([n \in 1..N |-> RedRA(n, ru) * RedRA(n, rv)], 1..N)
    ELSE SumSet([u \in Vertices |->
                   SumSet([v \in Vertices |-> AFull(u, v)], CompVerts(rv))],
                CompVerts(ru))
\* rAA handed to the delegate, null when there is no quadratic part
RedRAA(rN) ==
    IF ~(~IsNull(A) \/ a # 0) THEN NULL
    ELSE IF rN = FULL_ATA
    THEN [i \in 1..(rV * rV) |->
            RedRAAFull(((i - 1) \div rV) + 1, ((i - 1) % rV) + 1)]
    ELSE IF ~IsNull(A)
    THEN [rv \in Comps |-> SumSet(A, CompVerts(rv))]
    ELSE [rv \in Comps |-> CompSize(rv)]
\* rY: correlation of the reduced operator with the observation
RedRY ==
    IF IsNull(Y) THEN NULL
    ELSE IF ~IS_ATA(N)
    THEN [rv \in Comps |-> SumSet([n \in 1..N |-> RedRA(n, rv) * Y[n]], 1..N)]
    ELSE [rv \in Comps |-> SumSet(Y, CompVerts(rv))]
\* arguments of pfdr->set_quadratic (lines 429-430)
RedQuadratic(rN) ==
    IF IS_ATA(rN)
    THEN [Y |-> RedRY, N |-> rN, A |-> RedRAA(rN), a |-> a]
    ELSE [Y |-> Y, N |-> N,
          A |-> [i \in 1..(N * rV) |->
                   RedRA(((i - 1) % N) + 1, ((i - 1) \div N) + 1)],
          a |-> 1]
\* reduced l1 weights (lines 355-361, 382-384)
RedL1Weights ==
    IF ~IsNull(l1_weights)
    THEN [rv \in Comps |-> SumSet(l1_weights, CompVerts(rv))]
    ELSE IF homo_l1_weight # 0
    THEN [rv \in Comps |-> CompSize(rv) * homo_l1_weight]
    ELSE NULL
RECURSIVE FirstToReach(_, _, _)
\* lines 370-372: the first position, from i on, at which the cumulated
\* weight wsum exceeds half the weight w of the component
FirstToReach(i, wsum, w) ==
    IF 2 * (wsum + l1_weights[comp_list[i]]) > w THEN i
    ELSE FirstToReach(i + 1, wsum + l1_weights[comp_list[i]], w)
\* the median of the targets of rv; g is the content of the buffer when
\* the code leaves it unwritten
RedYl1(rv, g) ==
    IF ~IsNull(l1_weights)
    THEN IF is_saturated(rv)
         THEN Yl1[comp_list[FirstToReach(first_vertex[rv], 0,
                                          SumSet(l1_weights, CompVerts(rv)))]]
         ELSE WthElement(CompVerts(rv), Yl1, l1_weights)
    ELSE IF homo_l1_weight # 0
    THEN IF is_saturated(rv)
         THEN Yl1[comp_list[first_vertex[rv] + (CompSize(rv) \div 2)]]
         ELSE NthElementIdx(CompVerts(rv), Yl1, CompSize(rv) \div 2)
    ELSE g
\* comp_list after the selections on the components that are not saturated
RedCompList ==
    IF IsNull(Yl1) \/ (IsNull(l1_weights) /\ homo_l1_weight = 0)
    THEN comp_list
    ELSE [i \in 1..V |->
            LET rv == comp_assign[comp_list[i]]
            IN IF is_saturated(rv) THEN comp_list[i]
               ELSE SortByValue(CompVerts(rv), Yl1)[i - first_vertex[rv] + 1]]
\* rlow_bnd[rv] (lines 400-409)
RedLowBnd(rv) == Max({-INF_REAL} \cup {low_bnd[v] : v \in CompVerts(rv)})
\* the number of iterations the delegate may report
DelegateIts == {1, 2}
\* the solutions the delegate may return
DelegateSolutions == {[rv \in Comps |-> 0], [rv \in Comps |-> rv % (MaxVal + 1)]}

\* Line 410 declares a second rupp_bnd, null, that hides the allocated one:
\* with upp_bnd given, line 412 writes through the null pointer.  Either
\* the process dies there, or the hidden buffer reaches the delegate as
\* malloc left it.
solve_reduced_problem ==
    /\ ~halted /\ sp # "running"
    /\ \E garbageIsAta \in BOOLEAN, g \in Garbage, crash \in BOOLEAN :
        /\ crash => ~IsNull(upp_bnd)
        /\ call' = [op |-> "solve_reduced_problem", pfdr_it |-> pfdr_it,
                    crashed |-> crash]
        /\ IF crash
           THEN /\ halted' = TRUE
                /\ UNCHANGED <<pfdr, rX, pfdr_it, R, comp_list>>
           ELSE /\ UNCHANGED halted
                /\ pfdr' =
                     [op |-> "solve_reduced_problem",
                      quad |-> RedQuadratic(RedRN(garbageIsAta)),
                      l1 |-> [w |-> RedL1Weights,
                              yl1 |-> IF IsNull(Yl1) THEN NULL
                                      ELSE [rv \in Comps |-> RedYl1(rv, g)]],
                      bounds |->
                         [low |-> IF IsNull(low_bnd) THEN NULL
                                  ELSE [rv \in Comps |-> RedLowBnd(rv)],
                          hlow |-> homo_low_bnd,
                          upp |-> IF IsNull(upp_bnd) THEN NULL
                                  ELSE [rv \in Comps |-> g],
                          hupp |-> homo_upp_bnd]]
                /\ comp_list' = RedCompList
                /\ pfdr_it' \in DelegateIts
                /\ rX' \in DelegateSolutions
                /\ IF ~IS_ATA(N)
                   THEN R' = [n \in 1..N |->
                                <<Y_(n) - SumSet([rv \in Comps |->
                                                    RedRA(n, rv) * rX'[rv]],
                                                 Comps), 1>>]
                   ELSE UNCHANGED R
    /\ UNCHANGED <<Y, N, A, a, l1Vars, bndVars, pfdr_it_max,
                   rV, comp_assign, first_vertex, saturated, edge_active,
                   last_rX, tmp_comp_assign, uX, evo, obj, splitVars,
                   histVars>>

\* l1 weights of the reduced problem are positive on every vertex
RedL1Cfgs ==
    {[w |-> NULL, h |-> 0, yl1 |-> NULL],
     [w |-> NULL, h |-> MaxVal, yl1 |-> MixedArr],
     [w |-> [v \in Vertices |-> IF v = 1 THEN 1 ELSE MaxVal + 1], h |-> 0,
      yl1 |-> MixedArr]}
RedBndCfgs ==
    [low : {NULL, MixedArr}, hlow : {-INF_REAL},
     upp : {NULL, ConstArr(MaxVal), MixedArr}, hupp : {INF_REAL}]

InitRed ==
    /\ \E sh \in {s \in Shapes : s.a <= 1}, l1 \in RedL1Cfgs, b \in RedBndCfgs :
         \E y \in {NULL, [n \in 1..YLen(sh) |-> 1]} :
            /\ Configured(sh, y, l1, b)
            /\ IF IS_ATA(sh.N) THEN R = NULL
               ELSE R = [n \in 1..sh.N |-> <<0, 1>>]
    /\ halted = FALSE /\ call = [op |-> "configured"]
    /\ \E ca \in Assignments : FreshPartition(ca)
    /\ saturated \in [Comps -> BOOLEAN]
    /\ rX = [rv \in Comps |-> 0]
    /\ last_rX = [rv \in 1..1 |-> 0]
    /\ tmp_comp_assign = <<1, 1, 1>>
    /\ NoOutputs /\ NoSplit /\ NoHistory

NextRed == solve_reduced_problem

SpecRed == InitRed /\ [][NextRed]_vars

(***************************************************************************)
(* split().  The gradient is assembled first; then one task per component  *)
(* runs the two min cuts.  The tasks run concurrently: each is cut into    *)
(* the steps between which another task may run.                           *)
(***************************************************************************)
\* observations that make some components worth splitting
SplitY(len) == [n \in 1..len |-> IF n = 1 THEN 4 * MaxVal ELSE -MaxVal]
HasL1 == ~IsNull(l1_weights) \/ homo_l1_weight # 0

\* gradient of the quadratic term at vertex v (lines 469-503); R holds
\* integers in every state split() is entered from
QuadGrad(v) ==
    IF ~IS_ATA(N)
    THEN -SumSet([n \in 1..N |-> ADirect(n, v) * R[n][1]], 1..N)
    ELSE IF N = FULL_ATA
    THEN SumSet([rv \in Comps |->
                   IF rX[rv] = 0 THEN 0
                   ELSE SumSet([w \in Vertices |-> AFull(v, w)],
                               CompVerts(rv)) * rX[rv]], Comps) - Y_(v)
    ELSE IF ~IsNull(A) THEN A[v] * rX[comp_assign[v]] - Y_(v)
    ELSE IF a # 0 THEN rX[comp_assign[v]] - Y_(v)
    ELSE 0

\* The d1 loop (lines 505-517) runs in parallel over the source vertex u of
\* the active edges; the iteration of u updates grad[u] and grad[v] of the
\* other end.  An update is the pair <<e, end>>.
D1Updates == {<<e, s>> : e \in {f \in Edges : is_active(f)}, s \in {"u", "v"}}
D1Target(upd) ==
    IF upd[2] = "u" THEN SrcOf(upd[1]) ELSE adj_vertices[upd[1]]
D1Value(upd) ==
    LET e == upd[1]
        grad_d1 == IF rX[comp_assign[SrcOf(e)]] > rX[comp_assign[adj_vertices[e]]]
                   THEN EDGE_WEIGHTS_(e) ELSE -EDGE_WEIGHTS_(e)
    IN IF upd[2] = "u" THEN grad_d1 ELSE -grad_d1
\* updates of one entry of grad issued by two different iterations are not
\* ordered: one of them may be overwritten by the other
D1Racy(upd) ==
    \E o \in D1Updates :
        D1Target(o) = D1Target(upd) /\ SrcOf(o[1]) # SrcOf(upd[1])
D1LostSets ==
    {L \in SUBSET {upd \in D1Updates : D1Racy(upd)} :
        \A x, y \in L : x # y => D1Target(x) # D1Target(y)}
D1Grad(v, lost) ==
    SumSet([upd \in D1Updates |-> D1Value(upd)],
           {upd \in D1Updates \ lost : D1Target(upd) = v})

\* l1 contribution away from the target (lines 519-529)
L1Grad(v) ==
    IF ~HasL1 THEN 0
    ELSE IF rX[comp_assign[v]] > Yl1_(v) THEN L1_WEIGHTS_(v)
    ELSE IF rX[comp_assign[v]] < Yl1_(v) THEN -L1_WEIGHTS_(v)
    ELSE 0

\* terminal capacity of v for the first cut, direction +1_U (lines 544-568)
FirstTermCap(rv, v) ==
    LET c1 == IF HasL1 /\ rX[rv] = Yl1_(v) THEN grad[v] + L1_WEIGHTS_(v)
              ELSE grad[v]
    IN IF ~IsNull(upp_bnd)
       THEN (IF rX[rv] = upp_bnd[v] THEN INF_REAL ELSE c1)
       ELSE IF homo_upp_bnd < INF_REAL /\ rX[rv] = homo_upp_bnd
       THEN INF_REAL ELSE c1
\* the second cut starting from the capacities the first cut left
SecondTermCap_accum(rv, v) ==
    LET c1 == IF HasL1 /\ rX[rv] = Yl1_(v) THEN term_cap[v] - L1_WEIGHTS_(v)
              ELSE term_cap[v]
    IN IF ~IsNull(low_bnd)
       THEN (IF rX[rv] = low_bnd[v] THEN -INF_REAL ELSE c1)
       ELSE IF homo_low_bnd > -INF_REAL /\ rX[rv] = homo_low_bnd
       THEN -INF_REAL ELSE c1
\* terminal capacity of v for the second cut, direction -1_U (lines 604-627)
SecondTermCap(rv, v) ==
    LET c1 == IF HasL1 /\ rX[rv] = Yl1_(v) THEN grad[v] - L1_WEIGHTS_(v)
              ELSE grad[v]
    IN IF ~IsNull(low_bnd)
       THEN (IF rX[rv] = low_bnd[v] THEN -INF_REAL ELSE c1)
       ELSE IF homo_low_bnd > -INF_REAL /\ rX[rv] = homo_low_bnd
       THEN -INF_REAL ELSE c1
\* capacities given to every edge leaving rv, active or not
SetEdgeCapacities_all(rv) ==
    [e \in Edges |-> IF SrcOf(e) \in CompVerts(rv)
                     THEN EDGE_WEIGHTS_(e) ELSE edge_cap[e]]
\* d1 capacities of the inactive edges leaving rv (lines 570-577, 630-637)
SetEdgeCapacities(rv) ==
    [e \in Edges |-> IF SrcOf(e) \in CompVerts(rv) /\ ~is_active(e)
                     THEN EDGE_WEIGHTS_(e) ELSE edge_cap[e]]

\* The min-cut engine, restricted to the vertices of rv: a vertex with
\* positive terminal capacity is tied to the source, one with negative
\* capacity to the sink; active edges carry nothing.  S is the sink side.
CutCost(rv, S, tc, ec) ==
    SumSet([v \in Vertices |-> IF v \in S THEN Max({tc[v], 0})
                               ELSE Max({-tc[v], 0})], CompVerts(rv))
    + SumSet(ec, {e \in Edges :
                    /\ SrcOf(e) \in CompVerts(rv)
                    /\ adj_vertices[e] \in CompVerts(rv)
                    /\ ~is_active(e)
                    /\ (SrcOf(e) \in S) # (adj_vertices[e] \in S)})
MinCuts(rv, tc, ec) ==
    {S \in SUBSET CompVerts(rv) :
        \A T \in SUBSET CompVerts(rv) :
            CutCost(rv, S, tc, ec) <= CutCost(rv, T, tc, ec)}
\* maxflow on rv: capacities are set, then the sides are those of a minimum cut
maxflow(rv, tc) ==
    /\ term_cap' = [v \in Vertices |->
                      IF v \in CompVerts(rv) THEN tc[v] ELSE term_cap[v]]
    /\ edge_cap' = SetEdgeCapacities(rv)
    /\ \E S \in MinCuts(rv, tc, SetEdgeCapacities(rv)) :
          is_sink' = [v \in Vertices |->
                        IF v \in CompVerts(rv) THEN v \in S ELSE is_sink[v]]
    /\ nflow' = [nflow EXCEPT ![rv] = @ + 1]

\* the test of lines 585 and 645 without its first conjunct
NewlyCut_any(rv) ==
    {e \in Edges : /\ SrcOf(e) \in CompVerts(rv)
                   /\ is_sink[SrcOf(e)] # is_sink[adj_vertices[e]]}
\* edges of rv the last cut separates (lines 582-590, 642-650)
NewlyCut(rv) ==
    {e \in Edges : /\ SrcOf(e) \in CompVerts(rv)
                   /\ ~is_active(e)
                   /\ is_sink[SrcOf(e)] # is_sink[adj_vertices[e]]}
\* the flags of the edges of rv recomputed from the sides of the cut
ActivateCut_recomputed(rv) ==
    [e \in Edges |-> IF SrcOf(e) \in CompVerts(rv)
                     THEN is_sink[SrcOf(e)] # is_sink[adj_vertices[e]]
                     ELSE edge_active[e]]
\* set_active on every edge of NewlyCut
ActivateCut(rv) == [e \in Edges |-> edge_active[e] \/ e \in NewlyCut(rv)]
\* a component is flagged saturated whatever its task activated
SaturationAfter_always(n) == TRUE
\* the flag given to set_saturation (lines 597 and 652)
SaturationAfter(n) == n = 0
\* the test of lines 595-596 without its conjuncts on the bounds
OneCutOnly_noBounds == IsNull(l1_weights) /\ homo_l1_weight = 0
\* lines 595-596: no nondifferentiable part besides the total variation
OneCutOnly ==
    /\ IsNull(l1_weights) /\ homo_l1_weight = 0
    /\ IsNull(low_bnd) /\ IsNull(upp_bnd)
    /\ homo_low_bnd = -INF_REAL /\ homo_upp_bnd = INF_REAL

splitFrame == <<cfgVars, halted, rV, comp_assign, comp_list, first_vertex,
                rX, last_rX, tmp_comp_assign, outVars, nsplit, sat0, act0>>

\* entry of split(): lines 465-529
split_begin ==
    /\ ~halted /\ sp # "running" /\ nsplit < MaxSplits
    /\ \E lost \in D1LostSets :
          grad' = [v \in Vertices |->
                     QuadGrad(v) + D1Grad(v, lost) + L1Grad(v)]
    /\ sp' = "running"
    /\ pc' = [rv \in Comps |-> "todo"]
    /\ rv_activation' = [rv \in Comps |-> 0]
    /\ activation' = 0
    /\ nflow' = [rv \in Comps |-> 0]
    /\ nsplit' = nsplit + 1
    /\ sat0' = saturated /\ act0' = edge_active
    /\ call' = [op |-> "split_entered"]
    /\ UNCHANGED <<cfgVars, halted, partVars, outVars, term_cap, edge_cap,
                   is_sink, sink1>>

\* line 539: a saturated component is skipped
task_skip(rv) ==
    /\ sp = "running" /\ pc[rv] = "todo" /\ is_saturated(rv)
    /\ pc' = [pc EXCEPT ![rv] = "done"]
    /\ UNCHANGED <<splitFrame, saturated, edge_active, call, sp, grad,
                   term_cap, edge_cap, is_sink, rv_activation, activation,
                   nflow, sink1>>

\* lines 540-580
first_cut(rv) ==
    /\ sp = "running" /\ pc[rv] = "todo" /\ ~is_saturated(rv)
    /\ maxflow(rv, [v \in Vertices |-> FirstTermCap(rv, v)])
    /\ sink1' = is_sink'
    /\ pc' = [pc EXCEPT ![rv] = "cut1"]
    /\ UNCHANGED <<splitFrame, saturated, edge_active, call, sp, grad,
                   rv_activation, activation>>

\* lines 582-600
first_activate(rv) ==
    /\ sp = "running" /\ pc[rv] = "cut1"
    /\ edge_active' = ActivateCut(rv)
    /\ rv_activation' = [rv_activation EXCEPT
                            ![rv] = @ + Cardinality(NewlyCut(rv))]
    /\ IF OneCutOnly
       THEN /\ saturated' = [saturated EXCEPT
                               ![rv] = SaturationAfter(rv_activation'[rv])]
            /\ activation' = activation + rv_activation'[rv]
            /\ pc' = [pc EXCEPT ![rv] = "done"]
       ELSE /\ pc' = [pc EXCEPT ![rv] = "first"]
            /\ UNCHANGED <<saturated, activation>>
    /\ UNCHANGED <<splitFrame, call, sp, grad, term_cap, edge_cap, is_sink,
                   nflow, sink1>>

\* lines 602-640
second_cut(rv) ==
    /\ sp = "running" /\ pc[rv] = "first"
    /\ maxflow(rv, [v \in Vertices |-> SecondTermCap(rv, v)])
    /\ pc' = [pc EXCEPT ![rv] = "cut2"]
    /\ UNCHANGED <<splitFrame, saturated, edge_active, call, sp, grad,
                   rv_activation, activation, sink1>>

\* lines 642-653
second_activate(rv) ==
    /\ sp = "running" /\ pc[rv] = "cut2"
    /\ edge_active' = ActivateCut(rv)
    /\ rv_activation' = [rv_activation EXCEPT
                            ![rv] = @ + Cardinality(NewlyCut(rv))]
    /\ saturated' = [saturated EXCEPT
                       ![rv] = SaturationAfter(rv_activation'[rv])]
    /\ activation' = activation + rv_activation'[rv]
    /\ pc' = [pc EXCEPT ![rv] = "done"]
    /\ UNCHANGED <<splitFrame, call, sp, grad, term_cap, edge_cap, is_sink,
                   nflow, sink1>>

\* lines 657-662: the tasks have joined, activation is returned
split_end ==
    /\ sp = "running" /\ \A rv \in Comps : pc[rv] = "done"
    /\ sp' = "returned"
    /\ call' = [op |-> "split", ret |-> activation]
    /\ UNCHANGED <<splitFrame, saturated, edge_active, pc, grad, term_cap,
                   edge_cap, is_sink, rv_activation, activation, nflow, sink1>>

\* configurations split() is entered with
NoL1 == [w |-> NULL, h |-> 0, yl1 |-> NULL]
NoBnd == [low |-> NULL, hlow |-> -INF_REAL, upp |-> NULL, hupp |-> INF_REAL]
IdShape == [N |-> DIAG_ATA, A |-> NULL, a |-> 1]
SplitCfgs ==
    {[sh |-> IdShape, y |-> SplitY(V), l1 |-> NoL1, b |-> NoBnd],
     [sh |-> IdShape, y |-> SplitY(V),
      l1 |-> [w |-> NULL, h |-> MaxVal, yl1 |-> NULL], b |-> NoBnd],
     [sh |-> IdShape, y |-> SplitY(V), l1 |-> NoL1,
      b |-> [low |-> NULL, hlow |-> -INF_REAL,
             upp |-> ConstArr(MaxVal), hupp |-> INF_REAL]],
     [sh |-> IdShape, y |-> SplitY(V),
      l1 |-> [w |-> ConstArr(1), h |-> 0, yl1 |-> MixedArr],
      b |-> [low |-> NULL, hlow |-> 0, upp |-> NULL, hupp |-> MaxVal]],
     [sh |-> [N |-> 2, A |-> DirectA, a |-> 1], y |-> SplitY(2),
      l1 |-> NoL1, b |-> NoBnd],
     [sh |-> [N |-> FULL_ATA, A |-> FullA, a |-> 1], y |-> SplitY(V),
      l1 |-> NoL1, b |-> NoBnd],
     [sh |-> [N |-> DIAG_ATA, A |-> DiagA, a |-> 1], y |-> SplitY(V),
      l1 |-> [w |-> NULL, h |-> MaxVal, yl1 |-> NULL],
      b |-> [low |-> MixedArr, hlow |-> -INF_REAL,
             upp |-> NULL, hupp |-> INF_REAL]],
     [sh |-> [N |-> DIAG_ATA, A |-> NULL, a |-> 0], y |-> NULL,
      l1 |-> [w |-> NULL, h |-> MaxVal, yl1 |-> MixedArr], b |-> NoBnd]}

\* reduced solutions split() is entered with: at a bound or a target on every
\* component, or differing from one component to the next
SplitSolutions ==
    {[rv \in Comps |-> 0], [rv \in Comps |-> MaxVal],
     [rv \in Comps |-> rv % (MaxVal + 1)],
     [rv \in Comps |-> (rv + 1) % (MaxVal + 1)]}

InitSplit ==
    /\ \E c \in SplitCfgs : Configured(c.sh, c.y, c.l1, c.b)
    /\ halted = FALSE /\ call = [op |-> "configured"]
    /\ \E ca \in Assignments : FreshPartition(ca)
    /\ saturated \in [Comps -> BOOLEAN]
    /\ rX \in SplitSolutions
    /\ IF IS_ATA(N) THEN R = NULL
       ELSE R = [n \in 1..N |->
                   <<Y_(n) - SumSet([rv \in Comps |-> RedRA(n, rv) * rX[rv]],
                                    Comps), 1>>]
    /\ last_rX = [rv \in 1..1 |-> 0]
    /\ tmp_comp_assign = <<1, 1, 1>>
    /\ NoOutputs /\ NoSplit /\ NoHistory

NextSplit ==
    \/ split_begin
    \/ \E rv \in Comps : task_skip(rv)
    \/ \E rv \in Comps : first_cut(rv)
    \/ \E rv \in Comps : first_activate(rv)
    \/ \E rv \in Comps : second_cut(rv)
    \/ \E rv \in Comps : second_activate(rv)
    \/ split_end

SpecSplit == InitSplit /\ [][NextSplit]_vars

(***************************************************************************)
(* The two solves, one after the other, on the shapes with and without a   *)
(* residual buffer.                                                        *)
(***************************************************************************)
ResShapes == {sh \in Shapes : sh.a = 1 /\ (sh.N # DIAG_ATA \/ IsNull(sh.A))}
ResBndCfgs ==
    {NoBnd,
     [low |-> MixedArr, hlow |-> -INF_REAL, upp |-> NULL, hupp |-> INF_REAL],
     [low |-> NULL, hlow |-> -INF_REAL, upp |-> NULL, hupp |-> MaxVal]}

InitRes ==
    /\ \E sh \in ResShapes, l1 \in RedL1Cfgs, b \in ResBndCfgs :
         \E y \in {NULL, SplitY(YLen(sh))} :
            /\ Configured(sh, y, l1, b)
            /\ IF IS_ATA(sh.N) THEN R = NULL
               ELSE \E g \in Garbage : R = [n \in 1..sh.N |-> <<g, 1>>]
    /\ halted = FALSE /\ call = [op |-> "configured"]
    /\ \E ca \in Assignments : FreshPartition(ca)
    /\ saturated = [rv \in Comps |-> FALSE]
    /\ rX = [rv \in Comps |-> 0]
    /\ last_rX = [rv \in 1..1 |-> 0]
    /\ tmp_comp_assign = <<1, 1, 1>>
    /\ NoOutputs /\ NoSplit /\ NoHistory

NextRes == solve_univertex_problem \/ solve_reduced_problem

SpecRes == InitRes /\ [][NextRes]_vars

(***************************************************************************)
(* Claims on the configuration calls (checked under SpecCfg).              *)
(***************************************************************************)
\* C5 (as stated): after any sequence of set_bounds calls, the effective
\* lower bound of every vertex is at most its effective upper bound, the
\* mixed array/scalar cases included.
C5_BoxInvariantAllVertices == \A v \in Vertices : LowOf(v) <= UppOf(v)

\* C5 (amended): set_bounds checks the two homogeneous scalars only, and only
\* when neither per-vertex array is given: such a call with lower > upper is
\* fatal, so whenever both arrays are null, homo_low_bnd <= homo_upp_bnd.
C5_HomogeneousBoxInvariant ==
    /\ (IsNull(low_bnd) /\ IsNull(upp_bnd)) => homo_low_bnd <= homo_upp_bnd
    /\ (/\ call.op = "set_bounds"
        /\ IsNull(call.low_bnd) /\ IsNull(call.upp_bnd)
        /\ call.homo_low_bnd > call.homo_upp_bnd) => halted

\* C5 witness: a set_bounds call with homogeneous bounds only was accepted
\* at the boundary low = upp, after which the bounds are stored.
C5_Witness ==
    /\ call.op = "set_bounds" /\ ~halted
    /\ IsNull(low_bnd) /\ IsNull(upp_bnd)
    /\ homo_low_bnd = homo_upp_bnd

\* C6 (as stated): every set_l1 call with a negative homogeneous weight is
\* fatal, with or without a per-vertex array, so the stored homogeneous
\* weight is never negative.
C6_NegativeHomoAlwaysFatal ==
    /\ (call.op = "set_l1" /\ call.homo_l1_weight < 0) => halted
    /\ homo_l1_weight >= 0

\* C6 (amended): a set_l1 call with a negative homogeneous weight and no
\* per-vertex array is fatal and stores none of its arguments, so the
\* homogeneous weight is never negative while it is the one in effect
\* (l1_weights null); with an array the call returns and stores its arguments.
C6_NegativeHomoFatalWithoutArray ==
    /\ [](/\ (/\ call.op = "set_l1" /\ IsNull(call.l1_weights)
              /\ call.homo_l1_weight < 0) => halted
          /\ IsNull(l1_weights) => homo_l1_weight >= 0)
    /\ [][halted' => UNCHANGED cfgVars]_vars

\* C6 witness: the process was terminated by set_l1(null, negative, _).
C6_Witness ==
    /\ halted /\ call.op = "set_l1"
    /\ IsNull(call.l1_weights) /\ call.homo_l1_weight < 0

(***************************************************************************)
(* Claims on solve_univertex_problem (checked under SpecUni).              *)
(***************************************************************************)
UniSolved == call.op = "solve_univertex_problem"
NoBounds == /\ IsNull(low_bnd) /\ homo_low_bnd = -INF_REAL
            /\ IsNull(upp_bnd) /\ homo_upp_bnd = INF_REAL
\* the aggregates as the claim words them, per operator shape
HasOperator == ~IsNull(A) \/ a # 0
RowSumDirect(n) == SumSet([v \in Vertices |-> A[(v - 1) * N + n]], Vertices)
Claim_y ==
    IF ~IS_ATA(N)
    THEN SumSet([n \in 1..N |-> RowSumDirect(n) * (IF IsNull(Y) THEN 0 ELSE Y[n])],
                1..N)
    ELSE IF HasOperator /\ ~IsNull(Y) THEN SumSeq(Y) ELSE 0
\* aa, with aId the aggregate of the identity shape
Claim_aa(aId) ==
    IF ~IS_ATA(N)
    THEN SumSet([n \in 1..N |-> RowSumDirect(n) * RowSumDirect(n)], 1..N)
    ELSE IF ~IsNull(A) THEN SumSeq(A)   \* full: all entries; diagonal: diagonal
    ELSE aId
Claim_wl1 ==
    IF IsNull(l1_weights) THEN V * homo_l1_weight ELSE SumSeq(l1_weights)
\* x is the soft-threshold value for the aggregates (y, aa, wl1, median);
\* a division by aa = 0 gives an infinite value
IsSoftThreshold(x, y, aa, wl1, median) ==
    LET quotient(n) == IF aa # 0 THEN x[1] * aa = n * x[2]
                       ELSE Abs(x[1]) = INF_REAL * x[2]
    IN IF y - wl1 > aa * median THEN quotient(y - wl1)
       ELSE IF y + wl1 < aa * median THEN quotient(y + wl1)
       ELSE x[1] = median * x[2]
\* identity operator without l1: the arithmetic mean of Y
IsMeanOfY(x) ==
    (IS_ATA(N) /\ IsNull(A) /\ a # 0 /\ Claim_wl1 = 0 /\ ~IsNull(Y))
        => x[1] * V = SumSeq(Y) * x[2]

\* C7 (as stated): with no bound configured the result is the soft-threshold
\* value of the aggregates, where the scaled identity with coefficient a has
\* aa = a*V.
C7_SoftThresholdScaledIdentity ==
    (UniSolved /\ NoBounds) =>
        IsSoftThreshold(uX, Claim_y, Claim_aa(a * V), Claim_wl1, UniYl1)

\* C7 (amended): with no bound configured the result is the soft-threshold
\* value of the aggregates, where the identity shape (A null, any nonzero a)
\* has aa = V: the coefficient a is only tested for being nonzero.  For the
\* identity operator without l1 the result is the arithmetic mean of Y.
C7_SoftThresholdIdentity ==
    (UniSolved /\ NoBounds) =>
        /\ IsSoftThreshold(uX, Claim_y, Claim_aa(IF a # 0 THEN V ELSE 0),
                           Claim_wl1, UniYl1)
        /\ IsMeanOfY(uX)

\* C7 witness: a solve without bounds, in the direct shape, with an l1 term
\* and targets, that took the first branch and returned a non-integer value.
C7_Witness ==
    /\ UniSolved /\ NoBounds /\ ~IS_ATA(N)
    /\ Claim_wl1 > 0 /\ ~IsNull(Yl1)
    /\ Claim_y - Claim_wl1 > Claim_aa(0) * UniYl1
    /\ uX[1] % uX[2] # 0

\* the bounds as the claim words them
Claim_L == IF IsNull(low_bnd) THEN homo_low_bnd
           ELSE Max({low_bnd[v] : v \in Vertices})
Claim_U == IF IsNull(upp_bnd) THEN homo_upp_bnd
           ELSE Min({upp_bnd[v] : v \in Vertices})

\* C8: for L <= U the result lies in [L, U]; it is L when the unconstrained
\* optimum is below L, U when it is above U, and the unconstrained optimum
\* otherwise.
C8_ClampIntoBounds ==
    (UniSolved /\ Claim_L <= Claim_U) =>
        LET opt == UniUnconstrained
            L == FInt(Claim_L)
            U == FInt(Claim_U)
        IN /\ FLeq(L, uX) /\ FLeq(uX, U)
           /\ FLt(opt, L) => uX = L
           /\ FLt(U, opt) => uX = U
           /\ (FLeq(L, opt) /\ FLeq(opt, U)) => uX = opt

\* C8 witness: per-vertex upper bounds with different entries, L <= U, and an
\* unconstrained optimum above U.
C8_Witness ==
    /\ UniSolved /\ Claim_L <= Claim_U
    /\ ~IsNull(upp_bnd) /\ \E u, v \in Vertices : upp_bnd[u] # upp_bnd[v]
    /\ FLt(FInt(Claim_U), UniUnconstrained)
    /\ uX = FInt(Claim_U)

(***************************************************************************)
(* Claims on solve_reduced_problem (checked under SpecRed).                *)
(***************************************************************************)
\* the solve reached the delegate and returned
RedSolved == call.op = "solve_reduced_problem" /\ ~call.crashed

\* C9: the bounds handed to the delegate are the tightest of each
\* component: the maximum of low_bnd and the minimum of upp_bnd over the
\* vertices of the component, when these arrays are configured.
C9_TightestBounds ==
    RedSolved =>
        /\ ~IsNull(low_bnd) =>
              \A rv \in Comps :
                 pfdr.bounds.low[rv] = Max({low_bnd[v] : v \in CompVerts(rv)})
        /\ ~IsNull(upp_bnd) =>
              \A rv \in Comps :
                 pfdr.bounds.upp[rv] = Min({upp_bnd[v] : v \in CompVerts(rv)})

\* C10: with a direct main problem the delegate gets the premultiplied full
\* rV x rV form exactly when rV < (2*N*it)/(N + it), it being the iteration
\* count recorded before this solve, and the direct N x rV form otherwise;
\* with a premultiplied main problem it gets a premultiplied form.
C10_ShapeIsDetermined ==
    RedSolved =>
        IF ~IS_ATA(N)
        THEN IF rV < (2 * N * call.pfdr_it) \div (N + call.pfdr_it)
             THEN pfdr.quad.N = FULL_ATA /\ Len(pfdr.quad.A) = rV * rV
             ELSE pfdr.quad.N = N /\ Len(pfdr.quad.A) = N * rV
        ELSE IS_ATA(pfdr.quad.N)

(***************************************************************************)
(* Claims on split() (checked under SpecSplit).                            *)
(***************************************************************************)
SplitReturned == sp = "returned" /\ call.op = "split"
\* edges whose flag went from inactive to active during the last call
ActivatedInCall == {e \in Edges : ~act0[e] /\ edge_active[e]}
\* those with an end in component rv
ActivatedOf(rv) ==
    {e \in ActivatedInCall :
        comp_assign[SrcOf(e)] = rv \/ comp_assign[adj_vertices[e]] = rv}

\* C1: when split() returns, a component none of whose edges was activated
\* during the call is flagged saturated, and a component with at least one
\* edge activated during the call is not.
C1_SaturatedIffNoActivation ==
    SplitReturned =>
        \A rv \in Comps : is_saturated(rv) <=> (ActivatedOf(rv) = {})

\* C1 witness: a call that returned with a component that was cut (and is
\* not saturated) and one that was processed, not cut, and is saturated.
C1_Witness ==
    /\ SplitReturned
    /\ \E r1, r2 \in Comps :
          /\ ActivatedOf(r1) # {} /\ ~is_saturated(r1)
          /\ ~sat0[r2] /\ nflow[r2] > 0
          /\ ActivatedOf(r2) = {} /\ is_saturated(r2)

\* C2: no step of split(), in any interleaving of the tasks and of the two
\* cuts and over repeated calls, deactivates an edge.
C2_ActivationMonotone ==
    [][\A e \in Edges : edge_active[e] => edge_active'[e]]_vars

\* C2 witness: the second call has returned; an edge activated by the first
\* call lies inside a component the second call cut again, this time with
\* both ends of the edge on the same side, and the edge is still active.
C2_Witness ==
    /\ SplitReturned /\ nsplit = 2
    /\ \E e \in Edges :
          /\ act0[e] /\ edge_active[e]
          /\ comp_assign[SrcOf(e)] = comp_assign[adj_vertices[e]]
          /\ nflow[comp_assign[SrcOf(e)]] > 0
          /\ is_sink[SrcOf(e)] = is_sink[adj_vertices[e]]

\* C4: the value returned by split() is the number of edges whose flag went
\* from inactive to active during the call, each counted once.
C4_ReturnsNewlyActivated ==
    SplitReturned => call.ret = Cardinality(ActivatedInCall)

\* C4 witness: a call that returned a positive count, in which two
\* components ran both cuts and both cuts separated the ends of one edge.
C4_Witness ==
    /\ SplitReturned /\ call.ret > 0
    /\ Cardinality({rv \in Comps : nflow[rv] = 2}) >= 2
    /\ \E e \in ActivatedInCall :
          /\ nflow[comp_assign[SrcOf(e)]] = 2
          /\ sink1[SrcOf(e)] # sink1[adj_vertices[e]]
          /\ is_sink[SrcOf(e)] # is_sink[adj_vertices[e]]

\* the gradient as one thread assembles it
SequentialGrad ==
    [v \in Vertices |-> QuadGrad(v) + D1Grad(v, {}) + L1Grad(v)]

\* C11: in the parallel loops of split() every entry of grad is written by
\* one iteration only, so that the gradient the tasks start from is the one
\* a single thread assembles, whatever the interleaving of the iterations.
C11_GradWrittenByOneTask ==
    (sp = "running" /\ edge_active = act0) =>
        grad = SequentialGrad

(***************************************************************************)
(* Claims on the residual (checked under SpecRes).                         *)
(***************************************************************************)
\* Y[n] - sum over v of A[n,v]*x[v], for integer x
ResidualOf(n, x) ==
    Y_(n) - SumSet([v \in Vertices |-> A[(v - 1) * N + n] * x[v]], Vertices)

\* C12: in the direct shape, when solve_univertex_problem or
\* solve_reduced_problem has returned, R[n] = Y[n] - sum_v A[n,v]*x[v] for
\* every observation n, x[v] being the value just computed for the component
\* of v; in the premultiplied shapes there is no residual buffer.
C12_ResidualRefreshed ==
    /\ (UniSolved /\ ~IS_ATA(N)) =>
          \A n \in 1..N :
             FEq(R[n], <<Y_(n) * uX[2] - RowSumDirect(n) * uX[1], uX[2]>>)
    /\ (RedSolved /\ ~IS_ATA(N)) =>
          \A n \in 1..N :
             FEq(R[n], FInt(ResidualOf(n, [v \in Vertices |-> rX[comp_assign[v]]])))
    /\ IS_ATA(N) => R = NULL

\* C12 witness: the direct shape, after a univertex solve with a nonzero
\* answer followed by a reduced solve with a nonzero solution, the residual
\* differing from the observation.
C12_Witness ==
    /\ RedSolved /\ ~IS_ATA(N)
    /\ uX[1] # 0
    /\ \E rv \in Comps : rX[rv] # 0
    /\ \E n \in 1..N : R[n][1] # Y_(n)

(***************************************************************************)
(* Claims on compute_objective (checked under SpecObj).                    *)
(***************************************************************************)
\* the objective was computed on the single component holding the answer x
\* of the univariate solver
ObjectiveOfUniSolution ==
    /\ obj.op = "compute_objective"
    /\ obj.after = "solve_univertex_problem"
    /\ UniSolved /\ rV = 1
\* sum over the vertices of l1_weight[v]*|x - target[v]|
Claim_l1Sum(x) ==
    FSumSet([v \in Vertices |->
               <<L1_WEIGHTS_(v) * Abs(x[1] - Yl1_(v) * x[2]), x[2]>>], Vertices)
\* 1/2*||Y - A.x||^2: A the N x V matrix in the direct shape, the identity
\* in the identity shape
Claim_defQuad(x) ==
    IF ~IS_ATA(N)
    THEN <<SumSet([n \in 1..N |->
                     (Y_(n) * x[2] - RowSumDirect(n) * x[1])
                     * (Y_(n) * x[2] - RowSumDirect(n) * x[1])], 1..N),
           2 * x[2] * x[2]>>
    ELSE <<SumSet([v \in Vertices |->
                     (Y_(v) * x[2] - x[1]) * (Y_(v) * x[2] - x[1])], Vertices),
           2 * x[2] * x[2]>>
IdentityShape == IS_ATA(N) /\ N # FULL_ATA /\ IsNull(A) /\ a # 0

\* C13 (as stated): on a single component holding the univariate answer x,
\* compute_objective returns the defining sum 1/2*||Y - A.x||^2 + sum_v
\* l1_weight[v]*|x - target[v]|, in the direct shape and in the identity
\* shape alike.
C13_ObjectiveIsDefiningSum ==
    (ObjectiveOfUniSolution /\ (~IS_ATA(N) \/ IdentityShape)) =>
        FEq(obj.ret, FAdd(Claim_defQuad(uX), Claim_l1Sum(uX)))

\* C13 (amended): in the direct shape compute_objective returns the defining
\* sum; in the premultiplied shapes it returns 1/2*aa*x^2 - y*x + sum_v
\* l1_weight[v]*|x - target[v]| with the aggregates y and aa of the shape,
\* which in the identity shape is the defining sum less 1/2*||Y||^2.
C13_ObjectiveUpToConstant ==
    ObjectiveOfUniSolution =>
        /\ ~IS_ATA(N) =>
              FEq(obj.ret, FAdd(Claim_defQuad(uX), Claim_l1Sum(uX)))
        /\ IS_ATA(N) =>
              FEq(obj.ret,
                  FAdd(<<Claim_aa(IF a # 0 THEN V ELSE 0) * uX[1] * uX[1]
                         - 2 * Claim_y * uX[1] * uX[2], 2 * uX[2] * uX[2]>>,
                       Claim_l1Sum(uX)))
        /\ IdentityShape =>
              FEq(FAdd(obj.ret,
                       <<SumSet([v \in Vertices |-> Y_(v) * Y_(v)], Vertices), 2>>),
                  FAdd(Claim_defQuad(uX), Claim_l1Sum(uX)))

\* C13 witness: the identity shape with an observation and an l1 term, a
\* non-integer answer, and an objective below the defining sum.
C13_Witness ==
    /\ ObjectiveOfUniSolution /\ IdentityShape
    /\ ~IsNull(Y) /\ HasL1
    /\ uX[1] % uX[2] # 0
    /\ FLt(obj.ret, FAdd(Claim_defQuad(uX), Claim_l1Sum(uX)))

\* neither an l1 term nor a box constraint is configured
Claim_NoL1NoBox ==
    /\ IsNull(l1_weights) /\ homo_l1_weight = 0
    /\ IsNull(low_bnd) /\ IsNull(upp_bnd)
    /\ ~(homo_low_bnd > -INF_REAL) /\ ~(homo_upp_bnd < INF_REAL)

\* C14: in one split() call the number of maxflow queries issued for a
\* component is 0 if it is saturated on entry, 1 if it is not and neither an
\* l1 term nor a box constraint is configured, and 2 otherwise.
C14_MaxflowQueries ==
    SplitReturned =>
        \A rv \in Comps :
            nflow[rv] = IF sat0[rv] THEN 0
                        ELSE IF Claim_NoL1NoBox THEN 1 ELSE 2

\* C14 witness: a call that returned, with a box constraint and no l1 term,
\* one component saturated on entry and one cut twice.
C14_Witness ==
    /\ SplitReturned
    /\ IsNull(l1_weights) /\ homo_l1_weight = 0 /\ ~IsNull(upp_bnd)
    /\ \E r1, r2 \in Comps : sat0[r1] /\ nflow[r1] = 0 /\ nflow[r2] = 2

(***************************************************************************)
(* Further claims on compute_evolution (checked under SpecEvo).            *)
(***************************************************************************)
\* |rX[rv] - previous value of the first vertex of rv| > |rX[rv]|*dif_tol
Claim_Moved(rv) ==
    Abs(rX[rv] - last_rX[tmp_comp_assign[comp_list[first_vertex[rv]]]])
        * DifTolDen > Abs(rX[rv]) * DifTolNum

\* C15: compute_evolution only clears saturation flags: a component
\* saturated on entry loses its flag exactly when its first vertex moved by
\* more than dif_tol relatively, a component not saturated on entry stays
\* so, and the saturation count is the number of flags that are true; for
\* both values of compute_dif.
C15_EvolutionOnlyClears ==
    evo.op = "compute_evolution" =>
        /\ \A rv \in Comps :
              is_saturated(rv) <=> (sat0[rv] /\ ~Claim_Moved(rv))
        /\ evo.saturation = Cardinality({rv \in Comps : is_saturated(rv)})

\* C15 witness: a call without compute_dif that cleared the flag of one
\* component and kept the flag of another, some other vertex of which did
\* move.
C15_Witness ==
    /\ evo.op = "compute_evolution" /\ ~evo.compute_dif
    /\ \E r1, r2 \in Comps :
          /\ sat0[r1] /\ ~is_saturated(r1)
          /\ sat0[r2] /\ is_saturated(r2)
          /\ \E v \in CompVerts(r2) : LastValue(v) # rX[r2]

\* edges with an end in component rv
EdgesAt(rv) ==
    {e \in Edges :
        comp_assign[SrcOf(e)] = rv \/ comp_assign[adj_vertices[e]] = rv}

\* C16: no step of a split() call touches a component that was saturated
\* on entry: its flag stays true, the active flag and the capacity of every
\* edge with an end in it and the terminal capacity of its vertices are
\* left as they are, whatever the other tasks do.
C16_SaturatedUntouched ==
    [][sp = "running" =>
        \A rv \in Comps : sat0[rv] =>
            /\ saturated[rv] /\ saturated'[rv]
            /\ \A v \in CompVerts(rv) : term_cap'[v] = term_cap[v]
            /\ \A e \in EdgesAt(rv) :
                  /\ edge_active'[e] = edge_active[e]
                  /\ edge_cap'[e] = edge_cap[e]]_vars

\* C16 witness: a call that returned, in which a component saturated on
\* entry kept its flag while a neighbouring component was cut.
C16_Witness ==
    /\ SplitReturned
    /\ \E r1, r2 \in Comps :
          /\ sat0[r1] /\ is_saturated(r1)
          /\ ActivatedOf(r2) # {} /\ nflow[r2] > 0
          /\ EdgesAt(r1) \cap EdgesAt(r2) # {}

\* the terminal capacities as the claim words them
Claim_FirstCap(rv, v) ==
    IF rX[rv] = UppOf(v) THEN INF_REAL
    ELSE IF rX[rv] = Yl1_(v) THEN grad[v] + L1_WEIGHTS_(v)
    ELSE grad[v]
Claim_SecondCap(rv, v) ==
    IF rX[rv] = LowOf(v) THEN -INF_REAL
    ELSE IF rX[rv] = Yl1_(v) THEN grad[v] - L1_WEIGHTS_(v)
    ELSE grad[v]

\* C17: for every vertex v of a component that is cut, the first min cut
\* uses +infinity if rX[rv] is the upper bound of v, else grad[v] +
\* l1_weight[v] if rX[rv] is the l1 target of v, else grad[v]; the second
\* uses the mirror rule (-infinity at the lower bound, -l1_weight[v] at the
\* target), starting again from grad[v].
C17_TerminalCapacities ==
    [][\A rv \in Comps :
         /\ (pc[rv] = "todo" /\ pc'[rv] = "cut1") =>
               \A v \in CompVerts(rv) : term_cap'[v] = Claim_FirstCap(rv, v)
         /\ (pc[rv] = "first" /\ pc'[rv] = "cut2") =>
               \A v \in CompVerts(rv) : term_cap'[v] = Claim_SecondCap(rv, v)
      ]_vars

\* C17 witness: the second cut of a component has run with one vertex at
\* its lower bound and at its l1 target at once (capacity -infinity) and
\* another at its target only (capacity grad - weight, the weight nonzero).
C17_Witness ==
    \E rv \in Comps : \E v, w \in CompVerts(rv) :
        /\ pc[rv] = "cut2" /\ HasL1
        /\ rX[rv] = Yl1_(v) /\ rX[rv] = LowOf(v) /\ term_cap[v] = -INF_REAL
        /\ rX[rv] = Yl1_(w) /\ rX[rv] # LowOf(w) /\ L1_WEIGHTS_(w) # 0
        /\ term_cap[w] = grad[w] - L1_WEIGHTS_(w)

====
